---- MODULE Spec2Model ----
(***************************************************************************)
(* InterLock signalling subsystem of tenets-server: the tumbler            *)
(* (whitelist + circuit breaker), the BaNano wire codec, the UDP mesh      *)
(* transport and the signal dispatcher.                                    *)
(*                                                                         *)
(* JavaScript values are modelled as follows: a missing object (undefined  *)
(* metadata) is a record with present = FALSE; truthiness of a number is   *)
(* "# 0" and of a string is "# empty string"; an object is always truthy;  *)
(* a thrown exception is the result "threw".                               *)
(***************************************************************************)
EXTENDS Integers, Sequences, FiniteSets, TLC

(***************************************************************************)
(* Bounds of the model                                                     *)
(***************************************************************************)
StartTime == 100000
MaxTicks == 2
MaxOps == 2
MaxFindings == 2

(***************************************************************************)
(* Program constants                                                       *)
(***************************************************************************)
MAX_HOP_COUNT == 3
SIGNAL_TTL_MS == 30000
HEARTBEAT_INTERVAL == 30000

DefaultWhitelist ==
    {"DECISION_PENDING", "OPERATION_COMPLETE", "LESSON_LEARNED", "HEARTBEAT",
     "TENET_VIOLATION", "COUNTERFEIT_DETECTED", "ETHICS_AFFIRMED",
     "BLIND_SPOT_ALERT", "REMEDIATION_NEEDED"}

ConfigPeers == << [name |-> "alpha", port |-> 3001], [name |-> "beta", port |-> 3002] >>

\* Contents config/interlock.json can have, as far as loadWhitelist reads it:
\* no readable file, a file with a whitelist array, a file without the key.
ConfigFiles ==
    { [kind |-> "missing", whitelist |-> {}, peers |-> <<>>],
      [kind |-> "list", whitelist |-> {"HEARTBEAT", "DECISION_PENDING"}, peers |-> ConfigPeers],
      [kind |-> "nokey", whitelist |-> {}, peers |-> ConfigPeers] }

\* Inputs the operations are exercised with
TickSteps == {1, 30000}
SignalNames == {"HEARTBEAT", "UNKNOWN_0xAA"}
SignalIds == {"", "a"}
Ages == {0, 29999, 30000, 30001}
HopCounts == {0, 1, 2, 3, 4}

NoMetadata == [present |-> FALSE, signalId |-> "", hopCount |-> 0, timestamp |-> 0]

\* Metadata values a caller can pass at time t: the timestamp is 0 or lies
\* one of the Ages before t. Every hop count is tried on a fresh signal, every
\* timestamp on a signal below and on a signal at the hop limit.
Timestamps(t) == {0} \cup {t - a : a \in Ages}

Metadatas(t) ==
    { [present |-> TRUE, signalId |-> id, hopCount |-> h, timestamp |-> t] :
        id \in SignalIds, h \in HopCounts }
    \cup
    { [present |-> TRUE, signalId |-> id, hopCount |-> h, timestamp |-> ts] :
        id \in SignalIds, h \in {0, MAX_HOP_COUNT}, ts \in Timestamps(t) }

VARIABLES
    now,            \* Date.now()
    ticks,          \* number of clock advances so far
    ops,            \* number of operations so far
    configFile,     \* content of config/interlock.json
    whitelist,      \* tumbler: module-level whitelist (loaded lazily)
    tumblerStats,   \* tumbler: module-level counters
    recentSignals,  \* tumbler: dedup cache, signalId -> time recorded
    cleanupTimer,   \* tumbler: TRUE while the sweep interval is armed
    tlast,          \* the last tumbler call and what it returned
    firstAt,        \* signalId -> time of the first submission carrying it
    buf,            \* codec: the buffer handed to decode
    dec,            \* codec: what decode returned for buf
    enc,            \* codec: the arguments encode was called with
    stats,          \* mesh: module-level counters sent, received, dropped
    peersMap,       \* mesh: peer name -> status and lastSeen
    heartbeatTimer, \* mesh: the heartbeat interval, armed or not, and when it is due
    sock,           \* mesh: state of the UDP socket
    pending,        \* mesh: <<peer, kind>> -> socket.send callbacks outstanding
    handledAt,      \* signalId -> when handleSignal last got a datagram carrying it
    mlast,          \* the last step of the mesh
    interlockInstance, \* mesh: TRUE while the module holds the mesh (null after close)
    sendQueue,      \* mesh: what the unbound socket has deferred until it is bound
    second,         \* a second mesh of the same process: its socket, whether the module's heartbeat interval is its own, its send callbacks outstanding
    dbOpen,         \* handlers: FALSE once the database is closed
    patterns,       \* handlers: the rows of the patterns table, in insertion order
    evaluations,    \* handlers: number of evaluations stored
    emitted,        \* handlers: the signals the last dispatch gave to context.emit
    hsig,           \* handlers: the signal last dispatched
    hres,           \* handlers: "returned" or "threw", how the last dispatch ended
    hev             \* handlers: the Evaluator calls of the last dispatch and what evaluate returned

tumblerVars == <<configFile, whitelist, tumblerStats, recentSignals, cleanupTimer, tlast, firstAt>>
clockVars == <<now, ticks, ops>>
codecVars == <<buf, dec, enc>>
meshVars == <<stats, peersMap, heartbeatTimer, sock, pending, handledAt, mlast,
              interlockInstance, sendQueue, second>>
dispatchVars == <<dbOpen, patterns, evaluations, emitted, hsig, hres, hev>>
vars == <<now, ticks, ops, configFile, whitelist, tumblerStats, recentSignals,
          cleanupTimer, tlast, firstAt, buf, dec, enc, stats, peersMap, heartbeatTimer,
          sock, pending, handledAt, mlast, interlockInstance, sendQueue, second, dbOpen,
          patterns, evaluations, emitted, hsig, hres, hev>>

(***************************************************************************)
(* Tumbler                                                                 *)
(***************************************************************************)
NotLoaded == [loaded |-> FALSE, names |-> {}]

\* loadWhitelist(): the cached set if there is one, else the set read from
\* the configuration, else (readFileSync or JSON.parse threw) the default.
loadWhitelist(wl, cfg) ==
    IF wl.loaded THEN wl
    ELSE IF cfg.kind = "missing"
         THEN [loaded |-> TRUE, names |-> DefaultWhitelist]
         ELSE [loaded |-> TRUE, names |-> cfg.whitelist]

\* Mutant: off by one at the hop limit
HopLimitReached_OffByOne(md) == md.hopCount > MAX_HOP_COUNT

HopLimitReached(md) == md.hopCount >= MAX_HOP_COUNT

SignalExpired(md, t) == md.timestamp # 0 /\ t - md.timestamp > SIGNAL_TTL_MS

IsDuplicate(md, rs) == md.signalId # "" /\ md.signalId \in DOMAIN rs

\* Mutant: a signal without metadata counts as expired
checkCircuitBreaker_RejectsLegacy(md, rs, t) ==
    IF ~md.present THEN "signal_expired"
    ELSE IF HopLimitReached(md) THEN "hop_limit_exceeded"
    ELSE IF SignalExpired(md, t) THEN "signal_expired"
    ELSE IF IsDuplicate(md, rs) THEN "duplicate_signal"
    ELSE "none"

\* checkCircuitBreaker: the rejection reason, or "none" for null
checkCircuitBreaker(md, rs, t) ==
    IF ~md.present THEN "none"
    ELSE IF HopLimitReached(md) THEN "hop_limit_exceeded"
    ELSE IF SignalExpired(md, t) THEN "signal_expired"
    ELSE IF IsDuplicate(md, rs) THEN "duplicate_signal"
    ELSE "none"

\* checkCircuitBreaker step 4: the dedup cache after the call
TrackSignal(md, rs, t) ==
    IF md.present /\ checkCircuitBreaker(md, rs, t) = "none" /\ md.signalId # ""
    THEN [id \in DOMAIN rs \cup {md.signalId} |->
            IF id = md.signalId THEN t ELSE rs[id]]
    ELSE rs

\* checkCircuitBreaker: the per-reason counters after the call
CountReason(st, reason) ==
    [st EXCEPT !.rejectedHopLimit = @ + (IF reason = "hop_limit_exceeded" THEN 1 ELSE 0),
               !.rejectedExpired = @ + (IF reason = "signal_expired" THEN 1 ELSE 0),
               !.rejectedDuplicate = @ + (IF reason = "duplicate_signal" THEN 1 ELSE 0)]

\* Mutant: an empty whitelist lets every name through
InWhitelist_EmptyAllowsAll(wl, name) == name \in wl.names \/ wl.names = {}

InWhitelist(wl, name) == name \in wl.names

\* isWhitelisted(signalName, metadata): the returned object
isWhitelisted(name, md, wl, rs, t) ==
    LET cb == checkCircuitBreaker(md, rs, t) IN
    IF cb # "none" THEN [allowed |-> FALSE, reason |-> cb]
    ELSE IF InWhitelist(wl, name) THEN [allowed |-> TRUE, reason |-> "none"]
    ELSE [allowed |-> FALSE, reason |-> "not_in_whitelist"]

\* The module-level state after isWhitelisted(name, md)
TumblerState(name, md) ==
    LET cb == checkCircuitBreaker(md, recentSignals, now)
        wl == IF cb = "none" THEN loadWhitelist(whitelist, configFile) ELSE whitelist
        res == isWhitelisted(name, md, wl, recentSignals, now)
    IN /\ whitelist' = wl
       /\ recentSignals' = TrackSignal(md, recentSignals, now)
       /\ tumblerStats' = [CountReason(tumblerStats, cb) EXCEPT
                             !.accepted = @ + (IF res.allowed THEN 1 ELSE 0),
                             !.rejected = @ + (IF res.allowed THEN 0 ELSE 1)]

\* A direct call of isWhitelisted(name, md). tlast records the call: listed =
\* the name is in the loaded whitelist; first = no earlier call carried this
\* signalId; firstWas = when the first call carrying it was made (-1 none yet,
\* -2 it was made with a name, hop count or age that is rejected).
TumblerCall(name, md) ==
    LET wl == loadWhitelist(whitelist, configFile)
        res == isWhitelisted(name, md, wl, recentSignals, now)
        listed == name \in wl.names
        eligible == /\ md.present
                    /\ listed
                    /\ md.hopCount < MAX_HOP_COUNT
                    /\ now - md.timestamp <= SIGNAL_TTL_MS
    IN /\ TumblerState(name, md)
       /\ tlast' = [op |-> "check", name |-> name, md |-> md, at |-> now,
                    allowed |-> res.allowed, reason |-> res.reason,
                    listed |-> listed, eligible |-> eligible,
                    first |-> md.present /\ firstAt[md.signalId] = -1,
                    firstWas |-> IF md.present THEN firstAt[md.signalId] ELSE -1]
       /\ firstAt' = IF md.present /\ firstAt[md.signalId] = -1
                     THEN [firstAt EXCEPT ![md.signalId] = IF eligible THEN now ELSE -2]
                     ELSE firstAt

\* A direct call of the exported isWhitelisted
Submit ==
    /\ ops < MaxOps
    /\ \E name \in SignalNames, md \in {NoMetadata} \cup Metadatas(now) :
          TumblerCall(name, md)
    /\ ops' = ops + 1
    /\ UNCHANGED <<now, ticks, configFile, cleanupTimer, codecVars, meshVars, dispatchVars>>

\* A direct call of the exported checkCircuitBreaker(md): the per-reason
\* counter and the dedup cache change as inside isWhitelisted, accepted and
\* rejected are isWhitelisted's and stay
BreakerCall ==
    /\ ops < MaxOps
    /\ \E md \in {NoMetadata} \cup Metadatas(now) :
          LET cb == checkCircuitBreaker(md, recentSignals, now)
          IN /\ recentSignals' = TrackSignal(md, recentSignals, now)
             /\ tumblerStats' = CountReason(tumblerStats, cb)
             /\ tlast' = [tlast EXCEPT !.op = "breaker", !.md = md, !.at = now,
                                        !.reason = cb, !.allowed = (cb = "none")]
    /\ ops' = ops + 1
    /\ UNCHANGED <<now, ticks, configFile, whitelist, cleanupTimer, firstAt, codecVars,
                   meshVars, dispatchVars>>

\* Mutant: an entry exactly as old as the TTL is swept too
cleanupExpiredSignals_AtCutoff(rs, t) ==
    LET cutoff == t - SIGNAL_TTL_MS
        keep == {id \in DOMAIN rs : ~(rs[id] <= cutoff)}
    IN [id \in keep |-> rs[id]]

\* cleanupExpiredSignals(): the cache after the sweep
cleanupExpiredSignals(rs, t) ==
    LET cutoff == t - SIGNAL_TTL_MS
        keep == {id \in DOMAIN rs : ~(rs[id] < cutoff)}
    IN [id \in keep |-> rs[id]]

\* One firing of the interval armed by startCleanupTimer
Sweep ==
    /\ cleanupTimer
    /\ recentSignals' = cleanupExpiredSignals(recentSignals, now)
    /\ UNCHANGED <<clockVars, configFile, whitelist, tumblerStats, cleanupTimer, tlast,
                   firstAt, codecVars, meshVars, dispatchVars>>

\* Passage of time
Advance(d) ==
    /\ ticks < MaxTicks
    /\ now' = now + d
    /\ ticks' = ticks + 1
    /\ UNCHANGED <<ops, tumblerVars, codecVars, meshVars, dispatchVars>>

Tick == \E d \in TickSteps : Advance(d)

TumblerInit ==
    /\ whitelist = NotLoaded
    /\ tumblerStats = [accepted |-> 0, rejected |-> 0, rejectedHopLimit |-> 0,
                       rejectedExpired |-> 0, rejectedDuplicate |-> 0]
    /\ recentSignals = <<>>
    /\ cleanupTimer = TRUE
    /\ tlast = [op |-> "none", name |-> "", md |-> NoMetadata, at |-> 0,
                allowed |-> FALSE, reason |-> "none", listed |-> FALSE,
                eligible |-> FALSE, first |-> FALSE, firstWas |-> -1]
    /\ firstAt = [id \in SignalIds |-> -1]

(***************************************************************************)
(* Wire codec. A buffer is a sequence of bytes (0..255); a text is a       *)
(* sequence of one-character strings.                                      *)
(***************************************************************************)
PROTOCOL_VERSION == 256

\* The characters the payloads are written with, and their UTF-8 bytes
CharTable ==
    << <<" ", 32>>, <<"\"", 34>>, <<",", 44>>, <<"0", 48>>, <<"1", 49>>,
       <<"5", 53>>, <<":", 58>>, <<"[", 91>>, <<"]", 93>>, <<"a", 97>>,
       <<"d", 100>>, <<"e", 101>>, <<"f", 102>>, <<"i", 105>>, <<"j", 106>>,
       <<"l", 108>>, <<"n", 110>>, <<"o", 111>>, <<"r", 114>>, <<"s", 115>>,
       <<"t", 116>>, <<"u", 117>>, <<"v", 118>>, <<"x", 120>>, <<"{", 123>>,
       <<"}", 125>> >>

\* Buffer.from(text, 'utf8'): the byte of one character
ByteOf(c) == CharTable[CHOOSE i \in 1..Len(CharTable) : CharTable[i][1] = c][2]

\* buffer.toString('utf8'): the character of one byte ("?" stands for every
\* character outside the table)
CharOf(b) ==
    IF \E i \in 1..Len(CharTable) : CharTable[i][2] = b
    THEN CharTable[CHOOSE i \in 1..Len(CharTable) : CharTable[i][2] = b][1]
    ELSE "?"

ToBytes(text) == [i \in 1..Len(text) |-> ByteOf(text[i])]
ToText(bytes) == [i \in 1..Len(bytes) |-> CharOf(bytes[i])]

\* header.writeUInt16BE / writeUInt32BE
writeUInt16BE(v) == << (v \div 256) % 256, v % 256 >>
writeUInt32BE(v) ==
    << (v \div 16777216) % 256, (v \div 65536) % 256, (v \div 256) % 256, v % 256 >>

\* buffer.readUInt16BE(off) / readUInt32BE(off), off counted from 0
readUInt16BE(b, off) == b[off + 1] * 256 + b[off + 2]
readUInt32BE(b, off) ==
    ((b[off + 1] * 256 + b[off + 2]) * 256 + b[off + 3]) * 256 + b[off + 4]

\* buffer.slice(from, to), offsets counted from 0, clamped to the buffer
Slice(b, from, to) ==
    SubSeq(b, from + 1, IF to < Len(b) THEN to ELSE Len(b))

(***************************************************************************)
(* JSON.parse on the characters of CharTable: objects, arrays, strings     *)
(* without escapes, non-negative integers, null, true, false, and spaces   *)
(* as whitespace. A value is a record (t, str, num, items); the items of   *)
(* an object are its members (k, v) in order, those of an array have an    *)
(* empty k.                                                                *)
(***************************************************************************)
JV(t, str, num, items) == [t |-> t, str |-> str, num |-> num, items |-> items]
JNull == JV("null", <<>>, 0, <<>>)
JStr(str) == JV("str", str, 0, <<>>)
JNum(n) == JV("num", <<>>, n, <<>>)
JBool(b) == JV("bool", <<>>, IF b THEN 1 ELSE 0, <<>>)
JObj(members) == JV("obj", <<>>, 0, members)
JArr(elements) == JV("arr", <<>>, 0, elements)

PFail == [ok |-> FALSE, v |-> JNull, next |-> 0]
POk(v, n) == [ok |-> TRUE, v |-> v, next |-> n]

Ch(s, i) == IF i >= 1 /\ i <= Len(s) THEN s[i] ELSE "EOF"

MatchAt(s, i, w) == i + Len(w) - 1 <= Len(s) /\ SubSeq(s, i, i + Len(w) - 1) = w

RECURSIVE SkipWs(_, _)
SkipWs(s, i) == IF Ch(s, i) = " " THEN SkipWs(s, i + 1) ELSE i

RECURSIVE StringEnd(_, _)
StringEnd(s, j) ==
    IF j > Len(s) THEN 0 ELSE IF s[j] = "\"" THEN j ELSE StringEnd(s, j + 1)

\* s[i] is an opening quote
ParseString(s, i) ==
    LET e == StringEnd(s, i + 1) IN
    IF e = 0 THEN PFail ELSE POk(JStr(SubSeq(s, i + 1, e - 1)), e + 1)

DigitChars == {"0", "1", "5"}
DigitValue(c) == IF c = "0" THEN 0 ELSE IF c = "1" THEN 1 ELSE 5

RECURSIVE DigitsEnd(_, _)
DigitsEnd(s, j) == IF Ch(s, j) \in DigitChars THEN DigitsEnd(s, j + 1) ELSE j

RECURSIVE NumValue(_)
NumValue(ds) ==
    IF ds = <<>> THEN 0
    ELSE NumValue(SubSeq(ds, 1, Len(ds) - 1)) * 10 + DigitValue(ds[Len(ds)])

\* s[i] is a digit; a number starting with 0 is the number 0
ParseNumber(s, i) ==
    IF s[i] = "0" THEN POk(JNum(0), i + 1)
    ELSE LET e == DigitsEnd(s, i) IN POk(JNum(NumValue(SubSeq(s, i, e - 1))), e)

RECURSIVE ParseValue(_, _), ParseMembers(_, _, _), ParseElements(_, _, _)

ParseValue(s, i) ==
    LET j == SkipWs(s, i)
        c == Ch(s, j)
    IN IF c = "{"
       THEN LET k == SkipWs(s, j + 1) IN
            IF Ch(s, k) = "}" THEN POk(JObj(<<>>), k + 1) ELSE ParseMembers(s, k, <<>>)
       ELSE IF c = "["
       THEN LET k == SkipWs(s, j + 1) IN
            IF Ch(s, k) = "]" THEN POk(JArr(<<>>), k + 1) ELSE ParseElements(s, k, <<>>)
       ELSE IF c = "\"" THEN ParseString(s, j)
       ELSE IF c \in DigitChars THEN ParseNumber(s, j)
       ELSE IF MatchAt(s, j, <<"n", "u", "l", "l">>) THEN POk(JNull, j + 4)
       ELSE IF MatchAt(s, j, <<"t", "r", "u", "e">>) THEN POk(JBool(TRUE), j + 4)
       ELSE IF MatchAt(s, j, <<"f", "a", "l", "s", "e">>) THEN POk(JBool(FALSE), j + 5)
       ELSE PFail

\* i is where a member's key must start
ParseMembers(s, i, acc) ==
    IF Ch(s, i) # "\"" THEN PFail
    ELSE LET key == ParseString(s, i) IN
         IF ~key.ok THEN PFail
         ELSE LET c == SkipWs(s, key.next) IN
              IF Ch(s, c) # ":" THEN PFail
              ELSE LET val == ParseValue(s, c + 1) IN
                   IF ~val.ok THEN PFail
                   ELSE LET d == SkipWs(s, val.next)
                            acc2 == Append(acc, [k |-> key.v.str, v |-> val.v])
                        IN IF Ch(s, d) = "}" THEN POk(JObj(acc2), d + 1)
                           ELSE IF Ch(s, d) = ","
                           THEN ParseMembers(s, SkipWs(s, d + 1), acc2)
                           ELSE PFail

\* i is where an element must start
ParseElements(s, i, acc) ==
    LET val == ParseValue(s, i) IN
    IF ~val.ok THEN PFail
    ELSE LET d == SkipWs(s, val.next)
             acc2 == Append(acc, [k |-> <<>>, v |-> val.v])
         IN IF Ch(s, d) = "]" THEN POk(JArr(acc2), d + 1)
            ELSE IF Ch(s, d) = "," THEN ParseElements(s, d + 1, acc2)
            ELSE PFail

\* JSON.parse(text): ok = FALSE stands for the SyntaxError it throws
JSONParse(text) ==
    LET r == ParseValue(text, 1) IN
    IF r.ok /\ SkipWs(text, r.next) = Len(text) + 1 THEN r ELSE PFail

\* Truthiness of a parsed value
Truthy(v) ==
    IF v.t = "str" THEN v.str # <<>>
    ELSE IF v.t \in {"num", "bool"} THEN v.num # 0
    ELSE v.t # "null"

SenderKey == <<"s", "e", "n", "d", "e", "r">>
UnknownSender == JStr(<<"u", "n", "k", "n", "o", "w", "n">>)

HasMember(v, key) == \E i \in 1..Len(v.items) : v.items[i].k = key

\* payload[key] of an object or array that has the member (the last one
\* written wins)
Member(v, key) ==
    v.items[CHOOSE i \in 1..Len(v.items) :
               /\ v.items[i].k = key
               /\ \A j \in (i + 1)..Len(v.items) : v.items[j].k # key].v

\* payload[key] = value
SetMember(v, key, value) ==
    IF HasMember(v, key)
    THEN [v EXCEPT !.items = [i \in 1..Len(v.items) |->
                                IF v.items[i].k = key
                                THEN [k |-> key, v |-> value] ELSE v.items[i]]]
    ELSE [v EXCEPT !.items = Append(@, [k |-> key, v |-> value])]

(***************************************************************************)
(* decode                                                                  *)
(***************************************************************************)
DecNull == [kind |-> "null", signalType |-> 0, version |-> 0, timestamp |-> 0,
            payload |-> JNull]
DecThrew == [DecNull EXCEPT !.kind = "threw"]
DecPending == [DecNull EXCEPT !.kind = "pending"]

\* The body of decode's try block; kind "threw" is an exception raised in it
\* (a RangeError of reading past the buffer, a SyntaxError of JSON.parse, a
\* TypeError of reading a property of null or of writing a property of a
\* primitive in a strict-mode module).
DecodeTry(b) ==
    LET signalType == readUInt16BE(b, 0)
        version == readUInt16BE(b, 2)
        payloadLength == readUInt32BE(b, 4)
        timestamp == readUInt32BE(b, 8)
        parsed == JSONParse(ToText(Slice(b, 12, 12 + payloadLength)))
        payload == parsed.v
    IN IF Len(b) < 12 THEN DecThrew
       ELSE IF Len(b) < 12 + payloadLength THEN DecNull
       ELSE IF ~parsed.ok THEN DecThrew
       ELSE IF payload.t = "null" THEN DecThrew
       ELSE IF payload.t \in {"obj", "arr"}
       THEN [kind |-> "signal", signalType |-> signalType, version |-> version,
             timestamp |-> timestamp,
             payload |-> IF HasMember(payload, SenderKey) /\ Truthy(Member(payload, SenderKey))
                         THEN payload
                         ELSE SetMember(payload, SenderKey, UnknownSender)]
       ELSE DecThrew

\* Mutant: the exceptions of the try block escape
Catch_Rethrow(r) == r

\* decode's catch clause
Catch(r) == IF r.kind = "threw" THEN DecNull ELSE r

\* decode's first test: !buffer || buffer.length < 12
TooShort(b) == ~b.defined \/ Len(b.bytes) < 12

decode(b) == IF TooShort(b) THEN DecNull ELSE Catch(DecodeTry(b.bytes))

\* The signal codes, payload texts and buffers decode is exercised with
WireCodes == {4, 208, 170}

PayloadTexts ==
    { <<"{", "\"", "s", "e", "n", "d", "e", "r", "\"", ":", "\"", "a", "\"", "}">>,
      <<"{", "\"", "s", "e", "n", "d", "e", "r", "\"", ":", "\"", "\"", "}">>,
      <<"{", "}">>,
      <<"{", " ", "}">>,
      <<"{", "\"", "x", "\"", ":", "1", "}">>,
      <<"{", "\"", "x", "\"", ":", "1", ",", "}">>,
      <<"[", "]">>,
      <<"n", "u", "l", "l">>,
      <<"t", "r", "u", "e">>,
      <<"5">>,
      <<"\"", "s", "\"">>,
      <<>> }

InvalidJsonText == <<"i", "n", "v", "a", "l", "i", "d", " ", "j", "s", "o", "n">>

Undefined == [defined |-> FALSE, bytes |-> <<>>]

\* The header encode writes, with a declared payload length of the caller's choice
Header(code, declared, seconds) ==
    writeUInt16BE(code) \o writeUInt16BE(PROTOCOL_VERSION)
        \o writeUInt32BE(declared) \o writeUInt32BE(seconds)

DeclaredLengths(text) ==
    {0, Len(text), Len(text) + 1, 16777216}
        \cup (IF Len(text) > 0 THEN {Len(text) - 1} ELSE {})

Cuts(n) == {k \in {0, 11, 12, n - 1, n} : k >= 0 /\ k <= n}

\* A written buffer, cut to its first k bytes
BufferOf(code, text, declared, k) ==
    [defined |-> TRUE,
     bytes |-> SubSeq(Header(code, declared, StartTime \div 1000) \o ToBytes(text), 1, k)]

Buffers ==
    UNION { { BufferOf(c, t, d, k) : d \in DeclaredLengths(t), k \in Cuts(12 + Len(t)) } :
              c \in WireCodes, t \in PayloadTexts }
    \cup {Undefined, [defined |-> TRUE, bytes |-> ToBytes(InvalidJsonText)]}

\* JSON.stringify(v) of a value whose strings need no escapes: an object's
\* members in insertion order, no whitespace
RECURSIVE JSONStringify(_)
JSONStringify(v) ==
    LET Digit(d) == IF d = 0 THEN "0" ELSE IF d = 1 THEN "1" ELSE IF d = 5 THEN "5" ELSE "?"
        RECURSIVE NumberChars(_)
        NumberChars(n) ==
            IF n < 10 THEN <<Digit(n)>> ELSE NumberChars(n \div 10) \o <<Digit(n % 10)>>
        RECURSIVE Joined(_, _)
        Joined(items, isObject) ==
            IF items = <<>> THEN <<>>
            ELSE (IF isObject THEN <<"\"">> \o items[1].k \o <<"\"", ":">> ELSE <<>>)
                 \o JSONStringify(items[1].v)
                 \o (IF Len(items) > 1 THEN <<",">> ELSE <<>>)
                 \o Joined(Tail(items), isObject)
    IN IF v.t = "str" THEN <<"\"">> \o v.str \o <<"\"">>
       ELSE IF v.t = "num" THEN NumberChars(v.num)
       ELSE IF v.t = "bool" THEN (IF v.num = 1 THEN <<"t", "r", "u", "e">>
                                  ELSE <<"f", "a", "l", "s", "e">>)
       ELSE IF v.t = "null" THEN <<"n", "u", "l", "l">>
       ELSE IF v.t = "obj" THEN <<"{">> \o Joined(v.items, TRUE) \o <<"}">>
       ELSE <<"[">> \o Joined(v.items, FALSE) \o <<"]">>

\* { ...obj, ...data }: data's own members written over obj in their order;
\* spreading undefined adds nothing
RECURSIVE Spread(_, _)
Spread(obj, members) ==
    IF members = <<>> THEN obj
    ELSE Spread(SetMember(obj, members[1].k, members[1].v), Tail(members))

\* encode(signalType, sender, data) at time t
encode(signalType, sender, data, t) ==
    LET payload == JSONStringify(Spread(JObj(<<[k |-> SenderKey, v |-> JStr(sender)]>>),
                                        IF data.present THEN data.obj.items ELSE <<>>))
        payloadBuffer == ToBytes(payload)
    IN [defined |-> TRUE,
        bytes |-> Header(signalType, Len(payloadBuffer), t \div 1000) \o payloadBuffer]

\* encode's optional data argument, left out
NoDataArg == [present |-> FALSE, obj |-> JNull]
DataArg(members) == [present |-> TRUE, obj |-> JObj(members)]

NoEncode == [called |-> FALSE, signalType |-> 0, sender |-> <<>>, data |-> NoDataArg]

CodecIdle ==
    /\ buf = Undefined
    /\ dec = DecPending
    /\ enc = NoEncode

\* decode(buf) is called
Decode ==
    /\ dec.kind = "pending"
    /\ dec' = decode(buf)
    /\ UNCHANGED <<clockVars, tumblerVars, buf, enc, meshVars, dispatchVars>>

(***************************************************************************)
(* Mesh transport                                                          *)
(***************************************************************************)
SIGNAL_NAMES ==
    (208 :> "DECISION_PENDING") @@ (223 :> "OPERATION_COMPLETE")
        @@ (229 :> "LESSON_LEARNED") @@ (4 :> "HEARTBEAT")
        @@ (176 :> "TENET_VIOLATION") @@ (177 :> "COUNTERFEIT_DETECTED")
        @@ (178 :> "ETHICS_AFFIRMED") @@ (179 :> "BLIND_SPOT_ALERT")
        @@ (180 :> "REMEDIATION_NEEDED")

HexDigits == <<"0", "1", "2", "3", "4", "5", "6", "7", "8", "9",
               "A", "B", "C", "D", "E", "F">>

\* signalType.toString(16).toUpperCase()
RECURSIVE ToHex(_)
ToHex(n) ==
    IF n < 16 THEN HexDigits[n + 1]
    ELSE ToHex(n \div 16) \o HexDigits[(n % 16) + 1]

getSignalName(signalType) ==
    IF signalType \in DOMAIN SIGNAL_NAMES
    THEN SIGNAL_NAMES[signalType]
    ELSE "UNKNOWN_0x" \o ToHex(signalType)

\* loadPeers(): config.peers || [], or [] when the file cannot be read
loadPeers(cfg) == IF cfg.kind = "missing" THEN <<>> ELSE cfg.peers

PeerNames(cfg) == {loadPeers(cfg)[i].name : i \in 1..Len(loadPeers(cfg))}

SendKinds == {"emit", "heartbeat"}

\* Truthiness of what a call returned: a boolean is itself, an object is
\* truthy whatever its fields hold
JsTruthy(kind, b) == IF kind = "boolean" THEN b ELSE TRUE

\* !isWhitelisted(name) as the mesh evaluates it: the tumbler returns the
\* object { allowed, reason }
MeshRejects(res) == ~JsTruthy("object", res.allowed)

\* socket.send(...) to every peer: one more callback outstanding per peer
SendToAll(pend, kind) ==
    [k \in DOMAIN pend |-> IF k[2] = kind THEN pend[k] + 1 ELSE pend[k]]

\* heartbeatTimer when no interval is armed (null)
NoTimer == [armed |-> FALSE, due |-> 0]

\* No second mesh has been created
NoSecond == [sock |-> "none", owns |-> FALSE, pending |-> 0]

\* The clock advances by one heartbeat interval
MeshTick == Advance(HEARTBEAT_INTERVAL)

\* The counters after emit()
EmitStats(st, rejected) ==
    IF rejected THEN [st EXCEPT !.dropped = @ + 1] ELSE st

\* Mutant: a failed send is counted as sent
SendDoneStats_CountsFailure(st, kind, err) == [st EXCEPT !.sent = @ + 1]

\* The counters after the callback of one socket.send: emit counts a failure
\* as dropped, the heartbeat only logs it
SendDoneStats(st, kind, err) ==
    IF ~err THEN [st EXCEPT !.sent = @ + 1]
    ELSE IF kind = "emit" THEN [st EXCEPT !.dropped = @ + 1]
    ELSE st

\* Mutant: the datagram is counted as received before it is decoded
MessageStats_CountsFirst(st, decoded, rejected) ==
    IF ~decoded THEN [st EXCEPT !.dropped = @ + 1, !.received = @ + 1]
    ELSE IF rejected THEN [st EXCEPT !.received = @ + 1, !.dropped = @ + 1]
    ELSE [st EXCEPT !.received = @ + 1]

\* The counters after the 'message' handler
MessageStats(st, decoded, rejected) ==
    IF ~decoded THEN [st EXCEPT !.dropped = @ + 1]
    ELSE IF rejected THEN [st EXCEPT !.received = @ + 1, !.dropped = @ + 1]
    ELSE [st EXCEPT !.received = @ + 1]

\* The 'message' handler's loop over peersMap: the first peer, in the order
\* of the configuration, whose port is the datagram's source port
TouchPeer(pm, peers, port, t) ==
    IF \E i \in 1..Len(peers) : peers[i].port = port
    THEN LET i == CHOOSE i \in 1..Len(peers) :
                     /\ peers[i].port = port
                     /\ \A j \in 1..(i - 1) : peers[j].port # port
         IN [pm EXCEPT ![peers[i].name] = [status |-> "active", lastSeen |-> t]]
    ELSE pm

NoMeshOp == [op |-> "none", decoded |-> FALSE, listed |-> FALSE, handled |-> FALSE,
             md |-> NoMetadata, stale |-> FALSE, repeated |-> FALSE, peer |-> "",
             kind |-> "", err |-> FALSE, threw |-> FALSE]

\* socket.send(...) to every peer in the socket's state s with the deferred
\* work q. A bound socket sends; an unbound one defers the sends until it is
\* bound, and a send deferred behind a deferred close finds the socket closed;
\* a closed socket throws ERR_SOCKET_DGRAM_NOT_RUNNING at the first peer.
SocketSend(pend, kind, s, q) ==
    IF DOMAIN pend = {} THEN [pending |-> pend, queue |-> q, threw |-> FALSE]
    ELSE IF s = "closed" THEN [pending |-> pend, queue |-> q, threw |-> TRUE]
    ELSE IF s = "binding"
    THEN IF q = "close" THEN [pending |-> pend, queue |-> q, threw |-> FALSE]
         ELSE [pending |-> SendToAll(pend, kind), queue |-> "sends", threw |-> FALSE]
    ELSE [pending |-> SendToAll(pend, kind), queue |-> q, threw |-> FALSE]

\* emit(signal)
EmitOf(codes) ==
    /\ ops < MaxOps
    /\ \E code \in codes :
         LET name == getSignalName(code)
             wl == loadWhitelist(whitelist, configFile)
             res == isWhitelisted(name, NoMetadata, wl, recentSignals, now)
             rejected == MeshRejects(res)
             sent == SocketSend(pending, "emit", sock, sendQueue)
         IN /\ TumblerState(name, NoMetadata)
            /\ stats' = EmitStats(stats, rejected)
            /\ pending' = IF rejected THEN pending ELSE sent.pending
            /\ sendQueue' = IF rejected THEN sendQueue ELSE sent.queue
            /\ mlast' = [NoMeshOp EXCEPT !.op = "emit", !.listed = InWhitelist(wl, name),
                                         !.handled = ~rejected,
                                         !.threw = ~rejected /\ sent.threw]
    /\ ops' = ops + 1
    /\ UNCHANGED <<now, ticks, configFile, cleanupTimer, tlast, firstAt, codecVars,
                   peersMap, heartbeatTimer, sock, handledAt, interlockInstance,
                   second, dispatchVars>>

Emit == EmitOf(WireCodes)

\* The callback of one socket.send is called, with or without an error
SendCallback ==
    /\ sock # "binding"
    /\ \E k \in DOMAIN pending, err \in BOOLEAN :
         /\ pending[k] > 0
         /\ pending' = [pending EXCEPT ![k] = @ - 1]
         /\ stats' = SendDoneStats(stats, k[2], err)
         /\ mlast' = [NoMeshOp EXCEPT !.op = "callback", !.peer = k[1], !.kind = k[2],
                                      !.err = err]
    /\ UNCHANGED <<clockVars, tumblerVars, codecVars, peersMap, heartbeatTimer, sock,
                   handledAt, interlockInstance, sendQueue, second, dispatchVars>>

\* The buffers the socket receives: a HEARTBEAT, a signal of an unknown code,
\* and three damaged ones (declared length too long, payload not JSON, cut
\* inside the header)
ValidBuffer == BufferOf(4, <<"{", "}">>, 2, 14)
UnknownCodeBuffer == BufferOf(170, <<"{", "}">>, 2, 14)
DamagedBuffers ==
    { BufferOf(4, <<"{", "}">>, 3, 14),
      BufferOf(4, <<"{", "{">>, 2, 14),
      BufferOf(4, <<"{", "}">>, 2, 11) }

\* The circuit-breaker metadata a sender attaches: fresh, at the hop limit,
\* older than the TTL
SentMetadatas ==
    { [present |-> TRUE, signalId |-> "a", hopCount |-> 0, timestamp |-> StartTime],
      [present |-> TRUE, signalId |-> "a", hopCount |-> MAX_HOP_COUNT, timestamp |-> StartTime],
      [present |-> TRUE, signalId |-> "a", hopCount |-> 0,
       timestamp |-> StartTime - SIGNAL_TTL_MS - 1] }

\* The datagrams: a buffer, the metadata its sender attached, the source port
Datagrams ==
    [buf : {ValidBuffer}, md : SentMetadatas \cup {NoMetadata}, port : {3001}]
    \cup [buf : {ValidBuffer}, md : {NoMetadata}, port : {3002, 3999}]
    \cup [buf : {UnknownCodeBuffer} \cup DamagedBuffers, md : {NoMetadata}, port : {3001}]

\* decode(msg) for each buffer of Datagrams
Decoded == [b \in {dg.buf : dg \in Datagrams} |-> decode(b)]

\* socket.on('message')
MessageOf(datagrams) ==
    /\ ops < MaxOps
    /\ sock = "listening"
    /\ \E dg \in datagrams :
         LET signal == Decoded[dg.buf]
             decoded == signal.kind = "signal"
             name == getSignalName(signal.signalType)
             wl == loadWhitelist(whitelist, configFile)
             res == isWhitelisted(name, NoMetadata, wl, recentSignals, now)
             rejected == decoded /\ MeshRejects(res)
             handled == decoded /\ ~rejected
         IN /\ IF decoded THEN TumblerState(name, NoMetadata)
                         ELSE UNCHANGED <<whitelist, recentSignals, tumblerStats>>
            /\ stats' = MessageStats(stats, decoded, rejected)
            /\ peersMap' = IF decoded
                           THEN TouchPeer(peersMap, loadPeers(configFile), dg.port, now)
                           ELSE peersMap
            /\ handledAt' = IF handled /\ dg.md.present
                            THEN [handledAt EXCEPT ![dg.md.signalId] = now]
                            ELSE handledAt
            /\ mlast' = [NoMeshOp EXCEPT
                           !.op = "message", !.decoded = decoded,
                           !.listed = decoded /\ InWhitelist(wl, name),
                           !.handled = handled, !.md = dg.md,
                           !.stale = dg.md.present
                                     /\ now - dg.md.timestamp > SIGNAL_TTL_MS,
                           !.repeated = dg.md.present
                                        /\ handledAt[dg.md.signalId] >= 0
                                        /\ now - handledAt[dg.md.signalId] < SIGNAL_TTL_MS]
    /\ ops' = ops + 1
    /\ UNCHANGED <<now, ticks, configFile, cleanupTimer, tlast, firstAt, codecVars,
                   heartbeatTimer, sock, pending, interlockInstance, sendQueue,
                   second, dispatchVars>>

Message == MessageOf(Datagrams)

\* Mutant: the interval is armed and the first heartbeat waits for it
startHeartbeat_NoFirstBeat(pend, t) ==
    [timer |-> [armed |-> TRUE, due |-> t + HEARTBEAT_INTERVAL], pending |-> pend]

\* startHeartbeat(socket, peers) on the bound socket: the interval is armed
\* and the first heartbeat is sent at once
startHeartbeat(pend, t) ==
    [timer |-> [armed |-> TRUE, due |-> t + HEARTBEAT_INTERVAL],
     pending |-> SendToAll(pend, "heartbeat")]

\* socket.on('listening'): the socket is bound, the handler starts the
\* heartbeat, then the socket carries out what it had deferred, a deferred
\* close last
Listening ==
    /\ sock = "binding"
    /\ sock' = IF sendQueue = "close" THEN "closed" ELSE "listening"
    /\ sendQueue' = "none"
    /\ heartbeatTimer' = startHeartbeat(pending, now).timer
    /\ pending' = startHeartbeat(pending, now).pending
    /\ second' = [second EXCEPT !.owns = FALSE]
    /\ mlast' = [NoMeshOp EXCEPT !.op = "listening"]
    /\ UNCHANGED <<clockVars, tumblerVars, codecVars, stats, peersMap, handledAt,
                   interlockInstance, dispatchVars>>

\* One firing of the heartbeat interval: it sends on the socket of the mesh
\* whose 'listening' handler armed it
HeartbeatTick ==
    /\ ops < MaxOps
    /\ heartbeatTimer.armed
    /\ now >= heartbeatTimer.due
    /\ heartbeatTimer' = [heartbeatTimer EXCEPT !.due = @ + HEARTBEAT_INTERVAL]
    /\ IF second.owns
       THEN /\ second' = [second EXCEPT !.pending = @ + Cardinality(PeerNames(configFile))]
            /\ mlast' = [NoMeshOp EXCEPT !.op = "heartbeat", !.kind = "second"]
            /\ UNCHANGED pending
       ELSE LET sent == SocketSend(pending, "heartbeat", sock, sendQueue)
            IN /\ pending' = sent.pending
               /\ mlast' = [NoMeshOp EXCEPT !.op = "heartbeat", !.threw = sent.threw]
               /\ UNCHANGED second
    /\ ops' = ops + 1
    /\ UNCHANGED <<now, ticks, tumblerVars, codecVars, stats, peersMap, sock, handledAt,
                   interlockInstance, sendQueue, dispatchVars>>

\* mesh.close(): the interval is cleared if one is armed, then socket.close().
\* A closed socket throws ERR_SOCKET_DGRAM_NOT_RUNNING; an unbound socket that
\* has deferred sends defers the close behind them and returns; otherwise the
\* socket closes at once and its bind is abandoned.
Close ==
    /\ ops < MaxOps
    /\ sock # "none"
    /\ heartbeatTimer' = NoTimer
    /\ second' = [second EXCEPT !.owns = FALSE]
    /\ IF sock = "closed"
       THEN /\ mlast' = [NoMeshOp EXCEPT !.op = "close", !.threw = TRUE]
            /\ UNCHANGED <<sock, sendQueue, interlockInstance>>
       ELSE /\ mlast' = [NoMeshOp EXCEPT !.op = "close"]
            /\ sock' = IF sock = "binding" /\ sendQueue # "none" THEN "binding" ELSE "closed"
            /\ sendQueue' = IF sock = "binding" /\ sendQueue # "none" THEN "close" ELSE sendQueue
            /\ interlockInstance' = FALSE
    /\ ops' = ops + 1
    /\ UNCHANGED <<now, ticks, tumblerVars, codecVars, stats, peersMap, pending, handledAt,
                   dispatchVars>>

\* createInterLockMesh(db, evaluator, port2) called while the first mesh
\* exists: the module's peer table is replaced by a fresh one, a second socket
\* starts binding and the module holds the new mesh
CreateSecondMesh ==
    /\ ops < MaxOps
    /\ sock # "none"
    /\ second.sock = "none"
    /\ peersMap' = [n \in PeerNames(configFile) |-> [status |-> "unknown", lastSeen |-> 0]]
    /\ interlockInstance' = TRUE
    /\ second' = [second EXCEPT !.sock = "binding"]
    /\ mlast' = [NoMeshOp EXCEPT !.op = "create", !.kind = "second"]
    /\ ops' = ops + 1
    /\ UNCHANGED <<now, ticks, tumblerVars, codecVars, stats, heartbeatTimer, sock, pending,
                   handledAt, sendQueue, dispatchVars>>

\* socket.on('listening') of the second mesh: startHeartbeat clears the
\* module's interval, arms it for the second socket and sends the first
\* heartbeat on it
SecondListening ==
    /\ second.sock = "binding"
    /\ heartbeatTimer' = startHeartbeat(pending, now).timer
    /\ second' = [sock |-> "listening", owns |-> TRUE,
                  pending |-> second.pending + Cardinality(PeerNames(configFile))]
    /\ mlast' = [NoMeshOp EXCEPT !.op = "listening", !.kind = "second"]
    /\ UNCHANGED <<clockVars, tumblerVars, codecVars, stats, peersMap, sock, pending,
                   handledAt, interlockInstance, sendQueue, dispatchVars>>

\* The callback of one socket.send of the second mesh's heartbeat
SecondSendCallback ==
    /\ second.pending > 0
    /\ \E err \in BOOLEAN :
         /\ stats' = SendDoneStats(stats, "heartbeat", err)
         /\ mlast' = [NoMeshOp EXCEPT !.op = "callback", !.kind = "second", !.err = err]
    /\ second' = [second EXCEPT !.pending = @ - 1]
    /\ UNCHANGED <<clockVars, tumblerVars, codecVars, peersMap, heartbeatTimer, sock,
                   pending, handledAt, interlockInstance, sendQueue, dispatchVars>>

\* The mesh does not exist
MeshIdle ==
    /\ stats = [sent |-> 0, received |-> 0, dropped |-> 0]
    /\ peersMap = <<>>
    /\ heartbeatTimer = NoTimer
    /\ sock = "none"
    /\ pending = <<>>
    /\ handledAt = [id \in SignalIds |-> -1]
    /\ mlast = NoMeshOp
    /\ interlockInstance = FALSE
    /\ sendQueue = "none"
    /\ second = NoSecond

\* createInterLockMesh(db, evaluator, port) has returned
MeshCreated ==
    /\ stats = [sent |-> 0, received |-> 0, dropped |-> 0]
    /\ peersMap = [n \in PeerNames(configFile) |-> [status |-> "unknown", lastSeen |-> 0]]
    /\ heartbeatTimer = NoTimer
    /\ sock = "binding"
    /\ pending = [k \in PeerNames(configFile) \X SendKinds |-> 0]
    /\ handledAt = [id \in SignalIds |-> -1]
    /\ mlast = NoMeshOp
    /\ interlockInstance = TRUE
    /\ sendQueue = "none"
    /\ second = NoSecond

(***************************************************************************)
(* Signal handlers                                                         *)
(***************************************************************************)
SignalTypes ==
    [HEARTBEAT |-> 4, DECISION_PENDING |-> 208, OPERATION_COMPLETE |-> 223,
     LESSON_LEARNED |-> 229, TENET_VIOLATION |-> 176, COUNTERFEIT_DETECTED |-> 177,
     ETHICS_AFFIRMED |-> 178, BLIND_SPOT_ALERT |-> 179, REMEDIATION_NEEDED |-> 180]

\* JavaScript values of the fields the handlers read; a string is held as the
\* sequence of its words
JsUndefined == [t |-> "undefined", n |-> 0, w |-> <<>>]
JsNumber(n) == [t |-> "number", n |-> n, w |-> <<>>]
JsString(w) == [t |-> "string", n |-> 0, w |-> w]

\* Mutant: only null is taken for a missing field
IsTruthy_UndefinedPasses(v) ==
    IF v.t = "string" THEN v.w # <<>>
    ELSE IF v.t = "number" THEN v.n # 0
    ELSE TRUE

\* !v is false
IsTruthy(v) ==
    IF v.t = "string" THEN v.w # <<>>
    ELSE IF v.t = "number" THEN v.n # 0
    ELSE FALSE

\* String(v)
NumberText == (0 :> "0") @@ (42 :> "42")
ToStr(v) ==
    IF v.t = "string" THEN v.w
    ELSE IF v.t = "number" THEN <<NumberText[v.n]>>
    ELSE <<"undefined">>

\* text.toLowerCase(), word by word
LowerTable == ("Violation" :> "violation") @@ ("Manipulate" :> "manipulate")
toLowerCase(w) ==
    [i \in DOMAIN w |-> IF w[i] \in DOMAIN LowerTable THEN LowerTable[w[i]] ELSE w[i]]

\* text.includes(kw), at the granularity of words
includes(w, kw) ==
    \E i \in 0..(Len(w) - Len(kw)) : \A j \in 1..Len(kw) : w[i + j] = kw[j]

\* signal.data when the signal has none, and a data object with one field
NoData == [present |-> FALSE, decision_text |-> JsUndefined,
           operation |-> JsUndefined, lesson |-> JsUndefined]
DataWith(field, v) == [[NoData EXCEPT !.present = TRUE] EXCEPT ![field] = v]

\* A call that returned and a call that threw, with what it had done by then
NoEvaluation == [overall_assessment |-> "none", violations |-> 0, counterfeits_matched |-> 0]
Returned(emits, pats, stored) ==
    [kind |-> "returned", emits |-> emits, patterns |-> pats, stored |-> stored,
     calls |-> 0, evaluation |-> NoEvaluation]
Threw(emits, pats, stored) ==
    [kind |-> "threw", emits |-> emits, patterns |-> pats, stored |-> stored,
     calls |-> 0, evaluation |-> NoEvaluation]

\* The result of a handler that called the Evaluator once and got ev from it
WithCall(r, ev) == [r EXCEPT !.calls = 1, !.evaluation = ev]

\* createSignal(signalType, data): the payload starts with sender
\* 'tenets-server' and data's own fields are spread over it
createSignal(signalType, hasSender, sender) ==
    [signalType |-> signalType,
     sender |-> IF hasSender THEN sender ELSE JsString(<<"tenets-server">>)]

\* Mutant: one signal for the whole list
Copies_OnePerList(n, s) == IF n > 0 THEN <<s>> ELSE <<>>

\* n copies of a signal
Copies(n, s) == [i \in 1..n |-> s]

\* Evaluator.evaluate(decisionText, options): the tenets are read from the
\* database, the text is lower-cased and scored, the evaluation ev is stored
\* and returned. The scores depend on the tenets table; ev is any evaluation.
evaluate(decisionText, ev, open) ==
    IF ~open THEN [kind |-> "threw", evaluation |-> ev, stored |-> 0]
    ELSE IF decisionText.t # "string" THEN [kind |-> "threw", evaluation |-> ev, stored |-> 0]
    ELSE [kind |-> "returned", evaluation |-> ev, stored |-> 1]

\* No handler has a try/catch: an exception raised by evaluate leaves it
handleDecisionPending(signal, ev, open, pats) ==
    IF ~signal.data.present \/ ~IsTruthy(signal.data.decision_text)
    THEN Returned(<<>>, pats, 0)
    ELSE LET decisionText == signal.data.decision_text
             r == evaluate(decisionText, ev, open)
             evaluation == r.evaluation
             own == createSignal(0, FALSE, JsUndefined)
         IN IF r.kind = "threw" THEN WithCall(Threw(<<>>, pats, r.stored), NoEvaluation)
            ELSE IF evaluation.overall_assessment = "affirm"
            THEN WithCall(
                   Returned(<<[own EXCEPT !.signalType = SignalTypes.ETHICS_AFFIRMED]>>,
                            pats, r.stored),
                   evaluation)
            ELSE IF evaluation.overall_assessment = "reject"
            THEN WithCall(
                   Returned(
                     Copies(evaluation.violations,
                            [own EXCEPT !.signalType = SignalTypes.TENET_VIOLATION])
                     \o Copies(evaluation.counterfeits_matched,
                               [own EXCEPT !.signalType = SignalTypes.COUNTERFEIT_DETECTED]),
                     pats, r.stored),
                   evaluation)
            ELSE WithCall(
                   Returned(<<[own EXCEPT !.signalType = SignalTypes.BLIND_SPOT_ALERT]>>,
                            pats, r.stored),
                   evaluation)

\* PRIMARY_TESTS.counterfeit
CounterfeitKeywords ==
    { <<"manipulate">>, <<"control">>, <<"transactional">>, <<"strings", "attached">>,
      <<"self-interest">> }

\* Evaluator.quickEvaluate(decisionText).counterfeitDetected
quickEvaluate(decisionText) ==
    LET textLower == toLowerCase(decisionText)
    IN [counterfeitDetected |-> \E kw \in CounterfeitKeywords : includes(textLower, kw)]

handleOperationComplete(signal, pats) ==
    IF ~signal.data.present \/ ~IsTruthy(signal.data.operation)
    THEN Returned(<<>>, pats, 0)
    ELSE LET operation == ToStr(signal.data.operation)
             quickResult == quickEvaluate(operation)
         IN IF quickResult.counterfeitDetected
            THEN WithCall(Returned(<<createSignal(SignalTypes.COUNTERFEIT_DETECTED, TRUE,
                                                  signal.sender)>>, pats, 0),
                          NoEvaluation)
            ELSE WithCall(Returned(<<>>, pats, 0), NoEvaluation)

\* Mutant: the lookup finds nothing
findPatternByDescription_NeverFinds(pats, description) == 0

\* DatabaseManager.findPatternByDescription(description): the first row with
\* this description, 0 when there is none
findPatternByDescription(pats, description) ==
    IF \E i \in DOMAIN pats : pats[i].description = description
    THEN CHOOSE i \in DOMAIN pats :
             /\ pats[i].description = description
             /\ \A j \in 1..(i - 1) : pats[j].description # description
    ELSE 0

\* DatabaseManager.updatePatternFrequency(id)
updatePatternFrequency(pats, id) == [pats EXCEPT ![id].frequency = @ + 1]

\* DatabaseManager.insertPattern(pattern)
insertPattern(pats, pattern) == Append(pats, pattern)

\* The pattern type handleLessonLearned derives from the lesson's content
PatternType(lesson) ==
    LET lower == toLowerCase(lesson)
    IN IF includes(lower, <<"violation">>) \/ includes(lower, <<"wrong">>)
       THEN "violation"
       ELSE IF includes(lower, <<"counterfeit">>) \/ includes(lower, <<"fake">>)
       THEN "counterfeit"
       ELSE IF includes(lower, <<"missed">>) \/ includes(lower, <<"blind", "spot">>)
       THEN "blind_spot"
       ELSE "success"

\* Every statement of the database throws once it is closed
handleLessonLearned(signal, open, pats) ==
    IF ~signal.data.present \/ ~IsTruthy(signal.data.lesson)
    THEN Returned(<<>>, pats, 0)
    ELSE LET lesson == ToStr(signal.data.lesson)
             existingPattern == findPatternByDescription(pats, lesson)
         IN IF ~open THEN Threw(<<>>, pats, 0)
            ELSE IF existingPattern # 0
            THEN Returned(<<>>, updatePatternFrequency(pats, existingPattern), 0)
            ELSE Returned(<<>>,
                          insertPattern(pats, [description |-> lesson,
                                               pattern_type |-> PatternType(lesson),
                                               frequency |-> 1]),
                          0)

handleHeartbeat(signal, pats) == Returned(<<>>, pats, 0)

\* signal.code of an object that has no such field, as the signals decode
\* returns
NoCode == [t |-> "undefined", n |-> 0, w |-> <<>>]

\* Mutant: a COUNTERFEIT_DETECTED is checked like a completed operation
handleSignal_CounterfeitReprocessed(signal, ev, open, pats) ==
    IF signal.code = JsNumber(SignalTypes.DECISION_PENDING)
    THEN handleDecisionPending(signal, ev, open, pats)
    ELSE IF signal.code \in {JsNumber(SignalTypes.OPERATION_COMPLETE),
                             JsNumber(SignalTypes.COUNTERFEIT_DETECTED)}
    THEN handleOperationComplete(signal, pats)
    ELSE IF signal.code = JsNumber(SignalTypes.LESSON_LEARNED)
    THEN handleLessonLearned(signal, open, pats)
    ELSE IF signal.code = JsNumber(SignalTypes.HEARTBEAT)
    THEN handleHeartbeat(signal, pats)
    ELSE Returned(<<>>, pats, 0)

\* handleSignal(signal, context): the switch on signal.code
handleSignal(signal, ev, open, pats) ==
    IF signal.code = JsNumber(SignalTypes.DECISION_PENDING)
    THEN handleDecisionPending(signal, ev, open, pats)
    ELSE IF signal.code = JsNumber(SignalTypes.OPERATION_COMPLETE)
    THEN handleOperationComplete(signal, pats)
    ELSE IF signal.code = JsNumber(SignalTypes.LESSON_LEARNED)
    THEN handleLessonLearned(signal, open, pats)
    ELSE IF signal.code = JsNumber(SignalTypes.HEARTBEAT)
    THEN handleHeartbeat(signal, pats)
    ELSE Returned(<<>>, pats, 0)

\* The signals the handlers are exercised with
DispatchCodes ==
    { NoCode, JsNumber(170) }
    \cup { JsNumber(SignalTypes[k]) :
             k \in {"HEARTBEAT", "DECISION_PENDING", "OPERATION_COMPLETE",
                    "LESSON_LEARNED", "TENET_VIOLATION", "COUNTERFEIT_DETECTED",
                    "ETHICS_AFFIRMED", "BLIND_SPOT_ALERT"} }
FieldValues ==
    { JsNumber(0), JsNumber(42), JsString(<<>>), JsString(<<"help", "others">>),
      JsString(<<"Manipulate", "them">>), JsString(<<"a", "Violation">>) }
DispatchDatas ==
    { NoData, DataWith("decision_text", JsUndefined) }
    \cup { DataWith(f, v) : f \in {"decision_text", "operation", "lesson"}, v \in FieldValues }
DispatchSignals ==
    [code : DispatchCodes, sender : {JsUndefined, JsString(<<"consciousness">>)},
     data : DispatchDatas]

\* CONFIG of the Evaluator, the scores in hundredths
CONFIG == [AFFIRM_THRESHOLD |-> 65, CAUTION_THRESHOLD |-> 40,
           MAX_COUNTERFEITS_BEFORE_REJECT |-> 2]

\* Mutant: a low average score rejects
calculateAssessment_LowScoreRejects(severities, counterfeitMatches, primaryTests, avgScore) ==
    IF \E i \in DOMAIN severities : severities[i] = "critical" THEN "reject"
    ELSE IF counterfeitMatches >= CONFIG.MAX_COUNTERFEITS_BEFORE_REJECT THEN "reject"
    ELSE IF avgScore < CONFIG.CAUTION_THRESHOLD THEN "reject"
    ELSE "caution"

\* Evaluator.calculateAssessment(tenetScores, violations, counterfeitMatches,
\* primaryTests), given the violations' severities and the average score
calculateAssessment(severities, counterfeitMatches, primaryTests, avgScore) ==
    LET violations == Len(severities)
        passedTests == Cardinality({k \in {"love", "vulnerability", "systemic", "transformation"} :
                                       primaryTests[k]})
    IN IF \E i \in DOMAIN severities : severities[i] = "critical" THEN "reject"
       ELSE IF counterfeitMatches >= CONFIG.MAX_COUNTERFEITS_BEFORE_REJECT THEN "reject"
       ELSE IF \E i \in DOMAIN severities : severities[i] = "high" THEN "caution"
       ELSE IF primaryTests.love /\ primaryTests.vulnerability /\ violations = 0
               /\ ~primaryTests.counterfeit
       THEN "affirm"
       ELSE IF passedTests >= 3 /\ ~primaryTests.counterfeit /\ violations = 0 THEN "affirm"
       ELSE IF avgScore >= CONFIG.AFFIRM_THRESHOLD /\ violations = 0 THEN "affirm"
       ELSE "caution"

\* The evaluations evaluate can return. What scoring a text can find: per
\* tenet with a counterfeit match one violation of some severity and one
\* counterfeit match (scoreTenet, calculateSeverity); the five primary tests
\* (runPrimaryTests); the average score, in hundredths
Evaluations ==
    LET Severities == {"critical", "high", "medium", "low"}
        Findings == UNION { [1..n -> Severities] : n \in 0..MaxFindings }
        PrimaryTests == [love : BOOLEAN, vulnerability : BOOLEAN, counterfeit : BOOLEAN,
                         systemic : BOOLEAN, transformation : BOOLEAN]
        AvgScores == {30, 50, 70}
    IN { [overall_assessment |-> calculateAssessment(sev, Len(sev), tests, avg),
          violations |-> Len(sev), counterfeits_matched |-> Len(sev)] :
            sev \in Findings, tests \in PrimaryTests, avg \in AvgScores }

\* The evaluations to try a signal with: one is enough where the switch of
\* handleSignal does not lead to evaluate, or evaluate returns none
EvaluationsFor(signal) ==
    IF /\ signal.code = JsNumber(SignalTypes.DECISION_PENDING)
       /\ evaluate(signal.data.decision_text, CHOOSE ev \in Evaluations : TRUE, TRUE).kind
             = "returned"
    THEN Evaluations
    ELSE {CHOOSE ev \in Evaluations : TRUE}

NoSignal == [code |-> NoCode, sender |-> JsUndefined, data |-> NoData]

\* handleSignal(signal, context)
HandleSignal ==
    /\ ops < MaxOps
    /\ \E signal \in DispatchSignals : \E ev \in EvaluationsFor(signal) :
         LET r == handleSignal(signal, ev, dbOpen, patterns)
         IN /\ hsig' = signal
            /\ hres' = r.kind
            /\ emitted' = r.emits
            /\ patterns' = r.patterns
            /\ evaluations' = evaluations + r.stored
            /\ hev' = [calls |-> r.calls, evaluation |-> r.evaluation]
    /\ ops' = ops + 1
    /\ UNCHANGED <<now, ticks, tumblerVars, codecVars, meshVars, dbOpen>>

\* DatabaseManager.close()
DbClose ==
    /\ dbOpen
    /\ dbOpen' = FALSE
    /\ UNCHANGED <<clockVars, tumblerVars, codecVars, meshVars, patterns, evaluations,
                   emitted, hsig, hres, hev>>

\* The patterns table the handlers may start with: empty, or holding one
\* pattern from an earlier run
InitialPatterns ==
    { <<>>,
      <<[description |-> <<"a", "Violation">>, pattern_type |-> "violation",
         frequency |-> 1]>> }

\* The handlers' context before any dispatch
DispatchIdle ==
    /\ dbOpen = TRUE
    /\ patterns = <<>>
    /\ evaluations = 0
    /\ emitted = <<>>
    /\ hsig = NoSignal
    /\ hres = "none"
    /\ hev = [calls |-> 0, evaluation |-> NoEvaluation]

ClockInit ==
    /\ now = StartTime
    /\ ticks = 0
    /\ ops = 0

Init ==
    /\ ClockInit
    /\ configFile \in ConfigFiles
    /\ TumblerInit
    /\ CodecIdle
    /\ MeshIdle
    /\ DispatchIdle

Next == Submit \/ Sweep \/ Tick

Spec == Init /\ [][Next]_vars

\* The tumbler with every exported function that changes its state called
\* directly
SpecExports == Init /\ [][Submit \/ BreakerCall \/ Sweep \/ Tick]_vars

\* The codec on its own: decode applied to each buffer of Buffers
CodecInit ==
    /\ ClockInit
    /\ configFile = [kind |-> "missing", whitelist |-> {}, peers |-> <<>>]
    /\ TumblerInit
    /\ buf \in Buffers
    /\ dec = DecPending
    /\ enc = NoEncode
    /\ MeshIdle
    /\ DispatchIdle

CodecNext == Decode

SpecCodec == CodecInit /\ [][CodecNext]_vars

\* The arguments encode is exercised with: every known code, senders that
\* are empty or not, data left out, empty, with plain fields and with a
\* field named sender
EncodeCalls ==
    LET EncodeSenders == {<<>>, <<"a">>, <<"d", "e", "v">>}
        EncodeDatas ==
            { NoDataArg,
              DataArg(<<>>),
              DataArg(<<[k |-> <<"x">>, v |-> JNum(1)]>>),
              DataArg(<<[k |-> <<"t", "e", "x", "t">>, v |-> JStr(<<"a">>)],
                        [k |-> <<"x">>, v |-> JNum(15)]>>),
              DataArg(<<[k |-> <<"l", "i", "s", "t">>, v |-> JArr(<<[k |-> <<>>, v |-> JBool(TRUE)],
                                                            [k |-> <<>>, v |-> JNull]>>)]>>),
              DataArg(<<[k |-> SenderKey, v |-> JStr(<<"a">>)]>>),
              DataArg(<<[k |-> <<"x">>, v |-> JNum(5)], [k |-> SenderKey, v |-> JStr(<<>>)]>>) }
    IN [called : {TRUE}, signalType : DOMAIN SIGNAL_NAMES, sender : EncodeSenders,
        data : EncodeDatas]

\* buf = encode(signalType, sender, data), to be handed to decode
Encode ==
    /\ ~enc.called
    /\ \E call \in EncodeCalls :
         /\ enc' = call
         /\ buf' = encode(call.signalType, call.sender, call.data, now)
    /\ dec' = DecPending
    /\ UNCHANGED <<clockVars, tumblerVars, meshVars, dispatchVars>>

\* encode followed by decode
RoundTripInit ==
    /\ ClockInit
    /\ configFile = [kind |-> "missing", whitelist |-> {}, peers |-> <<>>]
    /\ TumblerInit
    /\ CodecIdle
    /\ MeshIdle
    /\ DispatchIdle

RoundTripNext == Encode \/ Decode

SpecRoundTrip == RoundTripInit /\ [][RoundTripNext]_vars

\* The mesh from createInterLockMesh on, with the tumbler it calls
MeshInit ==
    /\ ClockInit
    /\ configFile \in ConfigFiles
    /\ TumblerInit
    /\ CodecIdle
    /\ MeshCreated
    /\ DispatchIdle

MeshNext == Listening \/ HeartbeatTick \/ Emit \/ Message \/ SendCallback \/ MeshTick

SpecMesh == MeshInit /\ [][MeshNext]_vars

\* The life of one mesh, from createInterLockMesh to after close, under
\* HEARTBEAT traffic in both directions
LifecycleNext ==
    \/ Listening
    \/ HeartbeatTick
    \/ Close
    \/ EmitOf({SignalTypes.HEARTBEAT})
    \/ MessageOf({dg \in Datagrams : dg.buf = ValidBuffer /\ ~dg.md.present /\ dg.port = 3001})
    \/ SendCallback
    \/ MeshTick

SpecLifecycle == MeshInit /\ [][LifecycleNext]_vars

\* Two meshes created in one process, the first receiving HEARTBEATs and
\* either of them closing
SpecTwoMeshes ==
    MeshInit /\ [][\/ Listening
                   \/ HeartbeatTick
                   \/ Close
                   \/ MessageOf({dg \in Datagrams : dg.buf = ValidBuffer /\ ~dg.md.present
                                                      /\ dg.port = 3001})
                   \/ SendCallback
                   \/ CreateSecondMesh
                   \/ SecondListening
                   \/ SecondSendCallback
                   \/ MeshTick]_vars

\* The signal handlers on their own, called with a context whose emit records
\* the signals it is given
DispatchInit ==
    /\ ClockInit
    /\ configFile = [kind |-> "missing", whitelist |-> {}, peers |-> <<>>]
    /\ TumblerInit
    /\ CodecIdle
    /\ MeshIdle
    /\ dbOpen = TRUE
    /\ patterns \in InitialPatterns
    /\ evaluations = 0
    /\ emitted = <<>>
    /\ hsig = NoSignal
    /\ hres = "none"
    /\ hev = [calls |-> 0, evaluation |-> NoEvaluation]

DispatchNext == HandleSignal \/ DbClose

SpecDispatch == DispatchInit /\ [][DispatchNext]_vars

(***************************************************************************)
(* Claims about the tumbler                                                *)
(***************************************************************************)

\* C1: of two submissions carrying the same signalId less than 30 s apart,
\* both with a whitelisted name, hopCount < 3 and age <= 30 s, the first is
\* accepted and the second is rejected as duplicate_signal, whatever checks and
\* sweeps happen in between.
C1_SecondIsDuplicate ==
    (tlast.op = "check" /\ tlast.eligible) =>
        /\ tlast.first => tlast.allowed
        /\ (tlast.firstWas >= 0 /\ tlast.at - tlast.firstWas < SIGNAL_TTL_MS) =>
              (~tlast.allowed /\ tlast.reason = "duplicate_signal")

\* C2: a signal whose name is not in the loaded whitelist is rejected, with
\* absent metadata, fresh metadata or metadata failing a circuit-breaker check.
C2_UnlistedRejected ==
    (tlast.op = "check" /\ ~tlast.listed) => ~tlast.allowed

C2_Witness ==
    /\ tlast.op = "check"
    /\ ~tlast.listed
    /\ tlast.md.present
    /\ tlast.md.signalId # ""
    /\ tlast.reason = "not_in_whitelist"
    /\ whitelist.loaded

\* C5: a whitelisted signal with metadata is rejected with hop_limit_exceeded
\* exactly when its hopCount is 3 or more.
C5_HopLimitExact ==
    (tlast.op = "check" /\ tlast.md.present /\ tlast.listed) =>
        ((tlast.reason = "hop_limit_exceeded") <=> (tlast.md.hopCount >= 3))

C5_Witness ==
    /\ tlast.op = "check"
    /\ tlast.md.present
    /\ tlast.listed
    /\ tlast.md.hopCount = 3
    /\ tlast.reason = "hop_limit_exceeded"
    /\ tumblerStats.accepted > 0

\* C6: a whitelisted signal with metadata and hopCount < 3 is rejected with
\* signal_expired exactly when now - metadata.timestamp > 30000, for every
\* timestamp value.
C6_ExpiredExact ==
    (tlast.op = "check" /\ tlast.md.present /\ tlast.listed /\ tlast.md.hopCount < 3) =>
        ((tlast.reason = "signal_expired") <=> (tlast.at - tlast.md.timestamp > 30000))

\* C20: a call of isWhitelisted without metadata is never rejected for the
\* hop limit, for expiry or as a duplicate, leaves the dedup cache and the
\* three per-reason counters as they were, and is allowed exactly if the
\* name is in the whitelist.
C20_LegacyBypassesBreaker ==
    [][ (ops' = ops + 1 /\ tlast'.op = "check" /\ ~tlast'.md.present) =>
           /\ tlast'.reason \notin {"hop_limit_exceeded", "signal_expired", "duplicate_signal"}
           /\ tlast'.allowed <=> tlast'.listed
           /\ recentSignals' = recentSignals
           /\ tumblerStats'.rejectedHopLimit = tumblerStats.rejectedHopLimit
           /\ tumblerStats'.rejectedExpired = tumblerStats.rejectedExpired
           /\ tumblerStats'.rejectedDuplicate = tumblerStats.rejectedDuplicate ]_vars

\* C20 witness: with a signal id in the cache, a listed name without metadata
\* was allowed
C20_Witness ==
    /\ tlast.op = "check"
    /\ ~tlast.md.present
    /\ tlast.allowed /\ tlast.listed
    /\ DOMAIN recentSignals # {}
    /\ tumblerStats.accepted = 2

\* C21: a call of isWhitelisted with a name that is not in the whitelist is
\* rejected with the not-in-whitelist reason whatever its metadata, leaves
\* rejectedHopLimit, rejectedExpired and rejectedDuplicate as they were and
\* does not record its signalId in the dedup cache.
C21_WhitelistGateFirst ==
    [][ (ops' = ops + 1 /\ tlast'.op = "check" /\ ~tlast'.listed) =>
           /\ ~tlast'.allowed
           /\ tlast'.reason = "not_in_whitelist"
           /\ tumblerStats'.rejectedHopLimit = tumblerStats.rejectedHopLimit
           /\ tumblerStats'.rejectedExpired = tumblerStats.rejectedExpired
           /\ tumblerStats'.rejectedDuplicate = tumblerStats.rejectedDuplicate
           /\ recentSignals' = recentSignals ]_vars

\* C22: a signalId recorded in the dedup cache more than 30 s ago does not
\* cause a duplicate rejection: a call carrying it that is below the hop limit
\* and not expired is not rejected as duplicate_signal, is recorded anew, and
\* is accepted if its name is whitelisted, with or without a sweep in between.
C22_OldEntryNotDuplicate ==
    [][ (/\ ops' = ops + 1 /\ tlast'.op = "check"
         /\ tlast'.md.present /\ tlast'.md.signalId # ""
         /\ tlast'.md.signalId \in DOMAIN recentSignals
         /\ now - recentSignals[tlast'.md.signalId] > SIGNAL_TTL_MS
         /\ ~HopLimitReached(tlast'.md) /\ ~SignalExpired(tlast'.md, now)) =>
           /\ tlast'.reason # "duplicate_signal"
           /\ recentSignals'[tlast'.md.signalId] = now
           /\ tlast'.listed => tlast'.allowed ]_vars

\* C24: every call of isWhitelisted adds one to exactly one of accepted and
\* rejected, a circuit-breaker rejection adds one to its own reason counter
\* and to no other, and whatever exported functions are called
\* rejectedHopLimit + rejectedExpired + rejectedDuplicate never exceeds
\* rejected.
C24_CountersConsistent ==
    [][ /\ (ops' = ops + 1 /\ tlast'.op = "check") =>
              /\ tumblerStats'.accepted + tumblerStats'.rejected
                    = tumblerStats.accepted + tumblerStats.rejected + 1
              /\ tumblerStats'.accepted = tumblerStats.accepted + (IF tlast'.allowed THEN 1 ELSE 0)
              /\ tumblerStats'.rejectedHopLimit = tumblerStats.rejectedHopLimit
                    + (IF tlast'.reason = "hop_limit_exceeded" THEN 1 ELSE 0)
              /\ tumblerStats'.rejectedExpired = tumblerStats.rejectedExpired
                    + (IF tlast'.reason = "signal_expired" THEN 1 ELSE 0)
              /\ tumblerStats'.rejectedDuplicate = tumblerStats.rejectedDuplicate
                    + (IF tlast'.reason = "duplicate_signal" THEN 1 ELSE 0)
        /\ tumblerStats'.rejectedHopLimit + tumblerStats'.rejectedExpired
              + tumblerStats'.rejectedDuplicate <= tumblerStats'.rejected ]_vars

\* C25: a run of the dedup sweep removes every cache entry recorded more than
\* 30 s before it and no entry recorded within the last 30 s, and changes no
\* recorded time: after it the cache holds exactly the entries of the last
\* 30 s.
C25_SweepExact ==
    [][ LET fresh == {id \in DOMAIN recentSignals :
                        now - recentSignals[id] <= SIGNAL_TTL_MS}
            after == cleanupExpiredSignals(recentSignals, now)
        IN /\ DOMAIN after = fresh
           /\ (ops' = ops /\ now' = now /\ recentSignals' # recentSignals) =>
                 /\ DOMAIN recentSignals' = fresh
                 /\ \A id \in fresh : recentSignals'[id] = recentSignals[id] ]_vars

\* C25 witness: the signalId recorded more than 30 s ago is gone from the cache
C25_Witness ==
    /\ firstAt["a"] >= 0
    /\ now - firstAt["a"] > SIGNAL_TTL_MS
    /\ recentSignals = <<>>
    /\ tumblerStats.rejectedDuplicate = 0

\* C26: the whitelist is loaded on first use and never changes afterwards; it
\* is the configured list when the configuration file has one, and the fixed
\* default set of nine names when the file is missing, is not valid JSON or
\* has no whitelist array.
C26_LoadedOnceOrDefault ==
    [][ /\ whitelist.loaded => whitelist' = whitelist
        /\ whitelist'.loaded =>
              whitelist'.names = IF configFile.kind = "list" THEN configFile.whitelist
                                 ELSE DefaultWhitelist ]_vars

\* C27: of two calls of isWhitelisted with the same name and identical
\* metadata (the same signalId, empty or not, the same hop count and the
\* same timestamp, zero or not), whatever sweeps and clock advances lie
\* between them, the second is not accepted if the first was.
C27_NeverAcceptedTwice ==
    [][ (/\ ops' = ops + 1 /\ tlast'.op = "check"
         /\ tlast.op = "check" /\ tlast.allowed /\ tlast.md.present
         /\ tlast'.name = tlast.name /\ tlast'.md = tlast.md) =>
           ~tlast'.allowed ]_vars

(***************************************************************************)
(* Claims about the codec                                                  *)
(***************************************************************************)
DeclaredLength(b) == readUInt32BE(b.bytes, 4)

\* The buffers the claim is about: shorter than the header, declaring more
\* payload than they hold, or holding a payload that is not JSON
Malformed(b) ==
    \/ Len(b.bytes) < 12
    \/ 12 + DeclaredLength(b) > Len(b.bytes)
    \/ ~JSONParse(ToText(Slice(b.bytes, 12, 12 + DeclaredLength(b)))).ok

\* C7: decode throws for no buffer, and returns null for every buffer shorter
\* than 12 bytes, every buffer whose declared payload length plus 12 exceeds
\* its length and every buffer whose payload bytes are not JSON.
C7_DecodeNeverThrows ==
    (dec.kind # "pending") =>
        /\ dec.kind # "threw"
        /\ Malformed(buf) => dec.kind = "null"

C7_Witness ==
    /\ dec.kind = "null"
    /\ Len(buf.bytes) >= 12
    /\ 12 + DeclaredLength(buf) <= Len(buf.bytes)
    /\ DeclaredLength(buf) > 0
    /\ ~JSONParse(ToText(Slice(buf.bytes, 12, 12 + DeclaredLength(buf)))).ok

\* C19: for every known code, every sender string, the empty one included,
\* and every payload map, one with a key named sender included, decoding
\* what encode wrote gives a signal with the same code, whose payload.sender
\* is the sender given and whose other fields are those of the payload map.
C19_RoundTrip ==
    (enc.called /\ dec.kind # "pending") =>
        /\ dec.kind = "signal"
        /\ dec.signalType = enc.signalType
        /\ HasMember(dec.payload, SenderKey)
        /\ Member(dec.payload, SenderKey) = JStr(enc.sender)
        /\ LET given == IF enc.data.present THEN enc.data.obj.items ELSE <<>>
           IN /\ \A i \in DOMAIN given :
                    given[i].k # SenderKey =>
                       /\ HasMember(dec.payload, given[i].k)
                       /\ Member(dec.payload, given[i].k) = given[i].v
              /\ \A j \in DOMAIN dec.payload.items :
                    \/ dec.payload.items[j].k = SenderKey
                    \/ \E i \in DOMAIN given : given[i].k = dec.payload.items[j].k

(***************************************************************************)
(* Claims about the mesh                                                   *)
(***************************************************************************)

\* C3: a signal whose name is not whitelisted is never acted on by the mesh:
\* emit() of it hands no datagram to any peer and counts one dropped; an
\* inbound datagram carrying it is not passed to handleSignal and counts one
\* dropped.
C3_RejectedNeverActedOn ==
    [][ /\ (ops' = ops + 1 /\ mlast'.op = "emit" /\ ~mlast'.listed) =>
              /\ pending' = pending
              /\ stats'.dropped = stats.dropped + 1
        /\ (ops' = ops + 1 /\ mlast'.op = "message" /\ mlast'.decoded /\ ~mlast'.listed) =>
              /\ ~mlast'.handled
              /\ stats'.dropped = stats.dropped + 1 ]_vars

\* C4: handleSignal is not invoked for a decodable datagram whose metadata has
\* hopCount >= 3 or a timestamp more than 30 s old, nor for one that carries
\* the signalId of a datagram handled less than 30 s earlier.
C4_NoReprocessing ==
    (mlast.op = "message" /\ mlast.handled /\ mlast.md.present) =>
        /\ mlast.md.hopCount < MAX_HOP_COUNT
        /\ ~mlast.stale
        /\ ~mlast.repeated

\* C8: the 'message' handler given a datagram that does not decode counts one
\* dropped and nothing received, leaves every peer, the tumbler and the record
\* of handled signals as they were, and leaves the socket listening; a
\* datagram that decodes is counted as received, whatever came before it.
C8_DecodeFailureDropped ==
    [][ (ops' = ops + 1 /\ mlast'.op = "message") =>
           IF ~mlast'.decoded
           THEN /\ stats'.dropped = stats.dropped + 1
                /\ stats'.received = stats.received
                /\ stats'.sent = stats.sent
                /\ peersMap' = peersMap
                /\ <<whitelist, recentSignals, tumblerStats>>' =
                      <<whitelist, recentSignals, tumblerStats>>
                /\ ~mlast'.handled
                /\ handledAt' = handledAt
                /\ pending' = pending
                /\ sock' = "listening"
           ELSE stats'.received = stats.received + 1 ]_vars

\* C8 witness: two datagrams were received, the first failed to decode, the
\* second was decoded and handed to handleSignal
C8_Witness ==
    /\ ops = 2
    /\ mlast.op = "message" /\ mlast.decoded /\ mlast.handled
    /\ stats.received = 1 /\ stats.dropped = 1
    /\ tumblerStats.accepted + tumblerStats.rejected = 1

C11_NothingAfterClose ==
    [][ (~interlockInstance /\ ops' = ops + 1) =>
           /\ (mlast'.op = "emit") =>
                 /\ pending' = pending
                 /\ tumblerStats'.accepted = tumblerStats.accepted
                 /\ stats'.sent = stats.sent
           /\ (mlast'.op = "message") => ~mlast'.handled ]_vars

\* C12: once close() has returned, no step of the mesh hands a HEARTBEAT to
\* the socket, whether the close came before or after the 'listening' event
\* and before or after a heartbeat was due.
C12_NoHeartbeatAfterClose ==
    [][ ~interlockInstance =>
           \A k \in DOMAIN pending : k[2] = "heartbeat" => pending'[k] <= pending[k] ]_vars

\* C13: a close() of a mesh that was closed before does not throw and changes
\* neither the counters, the socket, the heartbeat timer nor the instance.
C13_CloseIdempotent ==
    [][ (~interlockInstance /\ ops' = ops + 1 /\ mlast'.op = "close") =>
           /\ ~mlast'.threw
           /\ stats' = stats
           /\ sock' = sock
           /\ heartbeatTimer' = heartbeatTimer
           /\ interlockInstance' = interlockInstance ]_vars

C23_CloseStopsSweep ==
    (sock # "none" /\ ~interlockInstance) => ~cleanupTimer

(***************************************************************************)
(* Claims about the signal handlers                                        *)
(***************************************************************************)

\* C10: every call of handleSignal returns normally, whatever the signal's
\* code and the types of its data fields and whether or not the database
\* answers; a call with a code that has no handler emits nothing and leaves
\* the patterns and the evaluations as they were.
C10_HandleSignalNeverThrows ==
    [][ (ops' = ops + 1) =>
           /\ hres' = "returned"
           /\ (hsig'.code \notin
                  { JsNumber(SignalTypes[k]) :
                      k \in {"DECISION_PENDING", "OPERATION_COMPLETE", "LESSON_LEARNED",
                             "HEARTBEAT"} }) =>
                 /\ emitted' = <<>>
                 /\ patterns' = patterns
                 /\ evaluations' = evaluations ]_vars

\* The codes as handleSignal compares them
DecisionPending == JsNumber(SignalTypes.DECISION_PENDING)
OperationComplete == JsNumber(SignalTypes.OPERATION_COMPLETE)
LessonLearned == JsNumber(SignalTypes.LESSON_LEARNED)
Heartbeat == JsNumber(SignalTypes.HEARTBEAT)

\* The signal types of a sequence of emitted signals
TypesOf(emits) == [i \in DOMAIN emits |-> emits[i].signalType]

\* The field of the signal's data is missing
Without(signal, field) == ~signal.data.present \/ signal.data[field].t = "undefined"

C16_NoOps ==
    [][ (/\ ops' = ops + 1
         /\ \/ hsig'.code = DecisionPending /\ Without(hsig', "decision_text")
            \/ hsig'.code = OperationComplete /\ Without(hsig', "operation")
            \/ hsig'.code = LessonLearned /\ Without(hsig', "lesson")
            \/ hsig'.code = Heartbeat) =>
           /\ hres' = "returned"
           /\ emitted' = <<>>
           /\ hev'.calls = 0
           /\ patterns' = patterns
           /\ evaluations' = evaluations ]_vars

\* C16 witness: a DECISION_PENDING whose data has no decision_text was
\* dispatched after an evaluation had been stored
C16_Witness ==
    /\ hsig.code = DecisionPending /\ hsig.data.present
    /\ hsig.data.decision_text.t = "undefined"
    /\ hres = "returned" /\ emitted = <<>>
    /\ evaluations = 1

C28_EmissionsDoNotRetrigger ==
    [][ (ops' = ops + 1) =>
           LET emittedTypes == {SignalTypes.ETHICS_AFFIRMED, SignalTypes.TENET_VIOLATION,
                                SignalTypes.COUNTERFEIT_DETECTED,
                                SignalTypes.BLIND_SPOT_ALERT}
           IN /\ \A i \in DOMAIN emitted' : emitted'[i].signalType \in emittedTypes
              /\ (hsig'.code \in {JsNumber(t) : t \in emittedTypes}) =>
                    (hres' = "returned" /\ emitted' = <<>>) ]_vars

\* C28 witness: after a decision was evaluated, a TENET_VIOLATION carrying a
\* decision_text was dispatched and nothing was emitted
C28_Witness ==
    /\ evaluations = 1
    /\ hsig.code = JsNumber(SignalTypes.TENET_VIOLATION)
    /\ hsig.data.present
    /\ hsig.data.decision_text = JsString(<<"Manipulate", "them">>)
    /\ hres = "returned"
    /\ emitted = <<>>

\* C30: every signal a dispatch emits has payload.sender 'tenets-server',
\* whatever the sender and the data of the signal dispatched.
C30_EmittedSenderIsOwnName ==
    \A i \in DOMAIN emitted : emitted[i].sender = JsString(<<"tenets-server">>)

\* C29: mesh instances are independent. With two meshes created in one
\* process, every bound and unclosed mesh has the armed heartbeat interval
\* sending on its own socket, and a step of the second mesh (its creation, its
\* binding, a callback of its sends) leaves the first mesh's counters and peer
\* table as they were.
C29_MeshesIndependent ==
    [][/\ (sock' = "listening" => heartbeatTimer'.armed /\ ~second'.owns)
       /\ (second'.sock = "listening" => heartbeatTimer'.armed /\ second'.owns)
       /\ (mlast'.kind = "second" /\ mlast'.op \in {"create", "listening", "callback"}
             => stats' = stats /\ peersMap' = peersMap)]_vars

====
